---- MODULE Spec2Model ----
(***************************************************************************)
(* Bulk job processing of mail-finder-backend: the bulk_finder_jobs and    *)
(* bulk_verification_jobs rows, the owner's profiles row (credits_find,    *)
(* credits_verify), the batched executor of lib/bulk-finder-processor.ts,  *)
(* the sequential executor of app/api/bulk-finder/jobs/route.ts, the two   *)
(* verify executors, submission, manual stop and stuck-job recovery.       *)
(*                                                                         *)
(* Every await on the database or on the lookup service is one step; the   *)
(* synchronous code between two awaits belongs to the step before it.      *)
(* Source indices are 0-based; item i of the source is position i + 1 of   *)
(* the sequences here, and current_index keeps the source's value.         *)
(***************************************************************************)
EXTENDS Integers, Sequences, FiniteSets, TLC

\* ---- bounds of the model ------------------------------------------------
MaxItems == 3
MaxCredits == 2
MaxInvokes == 2
\* lib/bulk-finder-processor.ts:125 sets BATCH_SIZE = 10; the model scales it
\* down so that a job of MaxItems items spans more than one batch.
BATCH_SIZE == 2
\* items of the verify job of the stop scenario
VerifyItems == 5
\* largest credits_verify of the submission scenario
MaxVerifyCredits == 5
\* largest amount asked of deductCredits
MaxRequired == 2

JobIds == {"j1", "j2"}
Users == {"u1", "u2"}
RunIds == {"r1", "r2"}
Outcomes == {"valid", "invalid", "error"}

ManualStop == "Job manually stopped by user"

VARIABLES
  jobs,                \* bulk_finder_jobs rows, by id
  profiles,            \* profiles rows (credits_find, credits_verify), by user
  credit_transactions, \* rows appended to credit_transactions
  stale,               \* job id -> updated_at is older than the recovery threshold
  runs,                \* invocations of processJobInBackground and their locals
  oracle,              \* what the lookup service answers for each item
  submitted,           \* result of the last submitBulkFinderJob call
  vjob,                \* the bulk_verification_jobs row
  vrun,                \* the invocation of processJob on it and its locals
  credits0,            \* history: the balances of each user at the start
  debits,              \* history: successful check-and-debits of each user
  stopped,             \* history: stopBulkFinderJob was called on the job
  invoked,             \* history: number of executor invocations so far
  vhist,               \* history of the verify job: stop point, attempts, debits
  vsubmitted,          \* result of the last submitBulkVerificationJob call
  queried,             \* the last getBulkFinderJobStatus call and its result
  calls,               \* calls of deductCredits and their locals
  stopCall             \* the last stopBulkFinderJob call and its result

dbVars == <<jobs, profiles, credit_transactions, stale>>
verifyVars == <<vjob, vrun, vhist, vsubmitted>>
vars == <<jobs, profiles, credit_transactions, stale, runs, oracle, submitted,
          vjob, vrun, credits0, debits, stopped, invoked, vhist, vsubmitted,
          queried, calls, stopCall>>

\* ---- records -------------------------------------------------------------
\* one request of a job: input stands for the request's own fields (full_name,
\* domain, role), told apart by its position in the submitted array
PendingItem ==
  [input |-> 0, status |-> "pending", error |-> "", email |-> FALSE]

NoJob ==
  [status |-> "none", user_id |-> "u1", requests_data |-> <<>>,
   current_index |-> 0, processed_requests |-> 0, successful_finds |-> 0,
   failed_finds |-> 0, error_message |-> "", completed_at |-> FALSE]

\* the row written without its requests_data
JobWithoutItems(u, n) == [NoJob EXCEPT !.status = "pending", !.user_id = u]

\* the row submitBulkFinderJob inserts for the requests 1..n:
\* requests.map(request => ({ ...request, status: 'pending' }))
NewJob(u, n) ==
  [NoJob EXCEPT !.status = "pending", !.user_id = u,
                !.requests_data =
                   [i \in 1..n |-> [PendingItem EXCEPT !.input = i]]]

NoSlot == [pc |-> "init", find |-> 0, verify |-> 0, success |-> FALSE]

IdleRun ==
  [kind |-> "none", pc |-> "idle", jobId |-> "j1", user_id |-> "u1",
   requests |-> <<>>, processedCount |-> 0, successCount |-> 0,
   failedCount |-> 0, loadedIndex |-> 0, startIndex |-> 0, batchStart |-> 0,
   totalProcessedRequests |-> 0, slots |-> <<>>, touched |-> {},
   error |-> ""]

Total(p) == p.credits_find + p.credits_verify

Min(a, b) == IF a < b THEN a ELSE b

\* ---- pure pieces of the executors ----------------------------------------
\* the credit check of one item: totalCredits < 1 fails it
HasCredits(find, verify) == find + verify >= 1

\* "Deduct 1 credit (prefer find credits first)": the update sets one column,
\* computed from the values read earlier, and leaves the other column alone
DeductOne(p, find, verify) ==
  IF find > 0 THEN [p EXCEPT !.credits_find = find - 1]
  ELSE [p EXCEPT !.credits_verify = verify - 1]

AlwaysFound(outcome) == TRUE
\* result.status === 'valid' && result.email
Found(outcome) == outcome = "valid"

\* request.error = result.message || 'Email not found'
LookupMessage(outcome) ==
  IF outcome = "error" THEN "Failed to find email due to API error"
  ELSE "Email not found"

ItemLeftAsItWas(item, outcome) == item

\* the item as the executor leaves it after the lookup answered
ItemAfterLookup(item, outcome) ==
  IF Found(outcome)
  THEN [item EXCEPT !.status = "completed", !.email = TRUE]
  ELSE [item EXCEPT !.status = "failed", !.error = LookupMessage(outcome)]

ItemFailed(item, why) == [item EXCEPT !.status = "failed", !.error = why]

RestartIndex(job) == 0
\* const startIndex = job.current_index || 0
StartIndex(job) == job.current_index

\* currentJob?.status === 'failed' || currentJob?.status === 'paused'
StopObserved(status) == status \in {"failed", "paused"}

\* Math.min(batchStart + BATCH_SIZE, requests.length)
BatchEnd(batchStart, len) == Min(batchStart + BATCH_SIZE, len)

\* ---- invocation, common to both find executors ---------------------------
\* a call of processJobInBackground(jobId) of the given flavour
Invoke(r, j, kind) ==
  /\ runs[r].pc \in {"idle", "done"}
  /\ invoked < MaxInvokes
  /\ runs' = [runs EXCEPT ![r] = [IdleRun EXCEPT !.kind = kind, !.pc = "start",
                                                  !.jobId = j]]
  /\ invoked' = invoked + 1
  /\ UNCHANGED <<dbVars, oracle, submitted, queried, verifyVars, credits0,
                 debits,
                 stopped, calls, stopCall>>

\* "Get job details"; a missing job throws and the catch block's update
\* matches no row
LoadJob(r) ==
  LET run == runs[r]
      job == jobs[run.jobId]
  IN /\ run.pc = "start"
     /\ IF job.status = "none"
        THEN runs' = [runs EXCEPT ![r] = [IdleRun EXCEPT !.kind = run.kind,
                                            !.pc = "done", !.jobId = run.jobId]]
        ELSE runs' = [runs EXCEPT ![r] =
                        [run EXCEPT !.pc = "loaded",
                                    !.user_id = job.user_id,
                                    !.requests = job.requests_data,
                                    !.processedCount = job.processed_requests,
                                    !.successCount = job.successful_finds,
                                    !.failedCount = job.failed_finds,
                                    !.loadedIndex = job.current_index,
                                    !.startIndex = StartIndex(job),
                                    !.batchStart = StartIndex(job)]]
     /\ UNCHANGED <<dbVars, oracle, submitted, queried, verifyVars, credits0,
                    debits, stopped, invoked, calls, stopCall>>

\* "Update job status to processing"
MarkProcessing(r) ==
  LET run == runs[r]
  IN /\ run.pc = "loaded"
     /\ jobs' = [jobs EXCEPT ![run.jobId].status = "processing"]
     /\ stale' = [stale EXCEPT ![run.jobId] = FALSE]
     /\ runs' = [runs EXCEPT ![r].pc = "loop"]
     /\ UNCHANGED <<profiles, credit_transactions, oracle, submitted, queried,
                    verifyVars, credits0, debits, stopped, invoked, calls, stopCall>>

\* "Log single bulk transaction for all processed requests"
LogTransaction(r) ==
  LET run == runs[r]
  IN /\ run.pc = "txn"
     /\ credit_transactions' =
          IF run.totalProcessedRequests > 0
          THEN Append(credit_transactions,
                      [user_id |-> run.user_id, job_id |-> run.jobId,
                       amount |-> 0 - run.totalProcessedRequests])
          ELSE credit_transactions
     /\ runs' = [runs EXCEPT ![r].pc = "complete"]
     /\ UNCHANGED <<jobs, profiles, stale, oracle, submitted, queried,
                    verifyVars,
                    credits0, debits, stopped, invoked, calls, stopCall>>

\* "Mark job as completed": unconditional, whatever ended the loop
MarkCompleted(r) ==
  LET run == runs[r]
  IN /\ run.pc = "complete"
     /\ jobs' = [jobs EXCEPT ![run.jobId].status = "completed",
                             ![run.jobId].completed_at = TRUE]
     /\ stale' = [stale EXCEPT ![run.jobId] = FALSE]
     /\ runs' = [runs EXCEPT ![r] = [IdleRun EXCEPT !.kind = run.kind,
                                       !.pc = "done", !.jobId = run.jobId]]
     /\ UNCHANGED <<profiles, credit_transactions, oracle, submitted, queried,
                    verifyVars, credits0, debits, stopped, invoked, calls, stopCall>>

\* ---- the batched executor: lib/bulk-finder-processor.ts -------------------
\* top of the for loop: the loop test, then the status re-read and the break,
\* else the batch is cut and every request of it is set to 'processing' (the
\* synchronous head of each map callback) and its profile read is issued
BatchLoop(r) ==
  LET run == runs[r]
      len == Len(run.requests)
      batchEnd == BatchEnd(run.batchStart, len)
      batch == (run.batchStart + 1)..batchEnd
  IN /\ run.kind = "batched" /\ run.pc = "loop"
     /\ IF run.batchStart >= len \/ StopObserved(jobs[run.jobId].status)
        THEN runs' = [runs EXCEPT ![r].pc = "txn"]
        ELSE runs' = [runs EXCEPT
               ![r].pc = "batch",
               ![r].requests = [i \in 1..len |->
                    IF i \in batch
                    THEN [run.requests[i] EXCEPT !.status = "processing"]
                    ELSE run.requests[i]],
               ![r].slots = [b \in 1..(batchEnd - run.batchStart) |-> NoSlot],
               ![r].touched = run.touched \cup {i - 1 : i \in batch}]
     /\ UNCHANGED <<dbVars, oracle, submitted, queried, verifyVars, credits0,
                    debits, stopped, invoked, calls, stopCall>>

\* "Check if user has credits before processing": the profile read of the
\* batch's b-th item returns
ItemReadProfile(r, b) ==
  LET run == runs[r]
      g == run.batchStart + b
      p == profiles[run.user_id]
  IN /\ run.kind = "batched" /\ run.pc = "batch"
     /\ b \in DOMAIN run.slots /\ run.slots[b].pc = "init"
     /\ IF HasCredits(p.credits_find, p.credits_verify)
        THEN runs' = [runs EXCEPT ![r].slots[b] =
                        [pc |-> "read", find |-> p.credits_find,
                         verify |-> p.credits_verify, success |-> FALSE]]
        ELSE runs' = [runs EXCEPT
               ![r].requests[g] = ItemFailed(@, "Insufficient credits"),
               ![r].slots[b] = [NoSlot EXCEPT !.pc = "done"]]
     /\ UNCHANGED <<dbVars, oracle, submitted, queried, verifyVars, credits0,
                    debits, stopped, invoked, calls, stopCall>>

\* "Update user credits": the write of the balance computed from the read
ItemDeduct(r, b) ==
  LET run == runs[r]
      u == run.user_id
      s == run.slots[b]
  IN /\ run.kind = "batched" /\ run.pc = "batch"
     /\ b \in DOMAIN run.slots /\ s.pc = "read"
     /\ profiles' = [profiles EXCEPT ![u] = DeductOne(@, s.find, s.verify)]
     /\ debits' = [debits EXCEPT ![u] = @ + 1]
     /\ runs' = [runs EXCEPT ![r].slots[b].pc = "debited"]
     /\ UNCHANGED <<jobs, credit_transactions, stale, oracle, submitted,
                    queried,
                    verifyVars, credits0, stopped, invoked, calls, stopCall>>

\* "Find email": the lookup of the batch's b-th item answers
ItemLookup(r, b) ==
  LET run == runs[r]
      g == run.batchStart + b
  IN /\ run.kind = "batched" /\ run.pc = "batch"
     /\ b \in DOMAIN run.slots /\ run.slots[b].pc = "debited"
     /\ runs' = [runs EXCEPT
          ![r].requests[g] = ItemAfterLookup(@, oracle[g]),
          ![r].slots[b] = [@ EXCEPT !.pc = "done", !.success = Found(oracle[g])]]
     /\ UNCHANGED <<dbVars, oracle, submitted, queried, verifyVars, credits0,
                    debits, stopped, invoked, calls, stopCall>>

Successes(slots) == Cardinality({b \in DOMAIN slots : slots[b].success})

\* Promise.all returned: "Update counters based on batch results" and
\* "Update progress in database after each batch"
BatchCheckpoint(r) ==
  LET run == runs[r]
      j == run.jobId
      size == Len(run.slots)
      ok == Successes(run.slots)
      batchEnd == BatchEnd(run.batchStart, Len(run.requests))
  IN /\ run.kind = "batched" /\ run.pc = "batch"
     /\ \A b \in DOMAIN run.slots : run.slots[b].pc = "done"
     /\ jobs' = [jobs EXCEPT
          ![j].processed_requests = run.processedCount + size,
          ![j].successful_finds = run.successCount + ok,
          ![j].failed_finds = run.failedCount + (size - ok),
          ![j].requests_data = run.requests,
          ![j].current_index = batchEnd]
     /\ stale' = [stale EXCEPT ![j] = FALSE]
     /\ runs' = [runs EXCEPT
          ![r].pc = "loop",
          ![r].processedCount = @ + size,
          ![r].totalProcessedRequests = @ + size,
          ![r].successCount = @ + ok,
          ![r].failedCount = @ + (size - ok),
          ![r].slots = <<>>,
          ![r].batchStart = @ + BATCH_SIZE]
     /\ UNCHANGED <<profiles, credit_transactions, oracle, submitted, queried,
                    verifyVars, credits0, debits, stopped, invoked, calls, stopCall>>

\* ---- the sequential executor: app/api/bulk-finder/jobs/route.ts ----------
\* top of the for loop: the loop test, then "Check if job was paused/stopped"
SeqCheckStatus(r) ==
  LET run == runs[r]
  IN /\ run.kind = "sequential" /\ run.pc = "loop"
     /\ IF run.batchStart >= Len(run.requests)
           \/ StopObserved(jobs[run.jobId].status)
        THEN runs' = [runs EXCEPT ![r].pc = "txn"]
        ELSE runs' = [runs EXCEPT ![r].pc = "mark"]
     /\ UNCHANGED <<dbVars, oracle, submitted, queried, verifyVars, credits0,
                    debits, stopped, invoked, calls, stopCall>>

\* request.status = 'processing' and "Update progress" (current_index: i)
SeqMarkItem(r) ==
  LET run == runs[r]
      j == run.jobId
      i == run.batchStart
      reqs == [run.requests EXCEPT ![i + 1].status = "processing"]
  IN /\ run.kind = "sequential" /\ run.pc = "mark"
     /\ jobs' = [jobs EXCEPT ![j].current_index = i,
                             ![j].requests_data = reqs]
     /\ stale' = [stale EXCEPT ![j] = FALSE]
     /\ runs' = [runs EXCEPT ![r].pc = "credit", ![r].requests = reqs,
                             ![r].touched = @ \cup {i}]
     /\ UNCHANGED <<profiles, credit_transactions, oracle, submitted, queried,
                    verifyVars, credits0, debits, stopped, invoked, calls, stopCall>>

\* "Check if user has credits before processing"; without credits the item
\* fails, failedCount++ and `continue` goes to the next i with no write
SeqReadProfile(r) ==
  LET run == runs[r]
      i == run.batchStart
      p == profiles[run.user_id]
  IN /\ run.kind = "sequential" /\ run.pc = "credit"
     /\ IF HasCredits(p.credits_find, p.credits_verify)
        THEN runs' = [runs EXCEPT
               ![r].pc = "deduct",
               ![r].slots = <<[pc |-> "read", find |-> p.credits_find,
                               verify |-> p.credits_verify, success |-> FALSE]>>]
        ELSE runs' = [runs EXCEPT
               ![r].pc = "loop",
               ![r].requests[i + 1] = ItemFailed(@, "Insufficient credits"),
               ![r].failedCount = @ + 1,
               ![r].batchStart = i + 1]
     /\ UNCHANGED <<dbVars, oracle, submitted, queried, verifyVars, credits0,
                    debits, stopped, invoked, calls, stopCall>>

\* "Update user credits", then totalProcessedRequests++
SeqDeduct(r) ==
  LET run == runs[r]
      u == run.user_id
      s == run.slots[1]
  IN /\ run.kind = "sequential" /\ run.pc = "deduct"
     /\ profiles' = [profiles EXCEPT ![u] = DeductOne(@, s.find, s.verify)]
     /\ debits' = [debits EXCEPT ![u] = @ + 1]
     /\ runs' = [runs EXCEPT ![r].pc = "lookup", ![r].slots = <<>>,
                             ![r].totalProcessedRequests = @ + 1]
     /\ UNCHANGED <<jobs, credit_transactions, stale, oracle, submitted,
                    queried,
                    verifyVars, credits0, stopped, invoked, calls, stopCall>>

\* "Find email", the counters, processedCount++
SeqLookup(r) ==
  LET run == runs[r]
      i == run.batchStart
      ok == Found(oracle[i + 1])
  IN /\ run.kind = "sequential" /\ run.pc = "lookup"
     /\ runs' = [runs EXCEPT
          ![r].pc = "progress",
          ![r].requests[i + 1] = ItemAfterLookup(@, oracle[i + 1]),
          ![r].successCount = IF ok THEN @ + 1 ELSE @,
          ![r].failedCount = IF ok THEN @ ELSE @ + 1,
          ![r].processedCount = @ + 1]
     /\ UNCHANGED <<dbVars, oracle, submitted, queried, verifyVars, credits0,
                    debits, stopped, invoked, calls, stopCall>>

\* "Update progress in database" (current_index: i + 1), then i++
SeqProgress(r) ==
  LET run == runs[r]
      j == run.jobId
      i == run.batchStart
  IN /\ run.kind = "sequential" /\ run.pc = "progress"
     /\ jobs' = [jobs EXCEPT
          ![j].processed_requests = run.processedCount,
          ![j].successful_finds = run.successCount,
          ![j].failed_finds = run.failedCount,
          ![j].requests_data = run.requests,
          ![j].current_index = i + 1]
     /\ stale' = [stale EXCEPT ![j] = FALSE]
     /\ runs' = [runs EXCEPT ![r].pc = "loop", ![r].batchStart = i + 1]
     /\ UNCHANGED <<profiles, credit_transactions, oracle, submitted, queried,
                    verifyVars, credits0, debits, stopped, invoked, calls, stopCall>>

\* ---- callers -------------------------------------------------------------
\* POST /api/bulk-finder/jobs {jobId}: starts the sequential executor on
\* whatever job id it is given
PostTrigger(r, j) ==
  /\ jobs[j].status # "none"
  /\ Invoke(r, j, "sequential")

\* JobQueue.processPendingJobs: starts the batched executor on pending jobs
ProcessPendingJobs(r, j) ==
  /\ jobs[j].status = "pending"
  /\ Invoke(r, j, "batched")

\* stopBulkFinderJob, called by the job's owner: no condition on the status
StopBulkFinderJob(j) ==
  /\ jobs[j].status # "none"
  /\ jobs' = [jobs EXCEPT ![j].status = "failed",
                          ![j].error_message = ManualStop,
                          ![j].completed_at = TRUE]
  /\ stopped' = [stopped EXCEPT ![j] = TRUE]
  /\ UNCHANGED <<profiles, credit_transactions, stale, runs, oracle,
                 submitted, queried, verifyVars, credits0, debits, invoked,
                 calls, stopCall>>

\* ---- submission ------------------------------------------------------------
CombinedCredits(profile) == profile.credits_find + profile.credits_verify
\* "Check if user has Find Credits specifically":
\* const availableCredits = profile.credits_find || 0
AvailableCredits(profile) == profile.credits_find

\* getCurrentUser() of a caller without a session returns null
NoUser == "anonymous"

\* isPlanExpired(): true without a user, else what the row's plan_expiry says
IsPlanExpired(u) == IF u = NoUser THEN TRUE ELSE profiles[u].plan_expired

\* the checks of a submission of n items by caller u, in the code's order,
\* against the pool the submission reads; "ok" when all of them pass
SubmitError(u, n, available) ==
  IF u = NoUser THEN "Unauthorized"
  ELSE IF IsPlanExpired(u) THEN "PlanExpired"
  ELSE IF available = 0 THEN "NoCredits"
  ELSE IF available < n THEN "InsufficientCredits"
  ELSE "ok"

\* what the caller is told: the required and available numbers are part of
\* the message of the shortfall alone
SubmitResult(error, n, available) ==
  [error |-> error, required |-> n,
   available |-> IF error \in {"Unauthorized", "PlanExpired"} THEN 0
                 ELSE available]

AdmitsAll(error) == TRUE
\* every failed check returns before the insert and the trigger
Admitted(error) == error = "ok"

\* submitBulkFinderJob(requests) of caller u with n requests: the session and
\* plan checks, the credit pre-check, the insert of the pending job and the
\* direct call of the route's processJobInBackground for it
SubmitBulkFinderJob(r, j, u, n) ==
  LET available == IF u = NoUser THEN 0 ELSE AvailableCredits(profiles[u])
      error == SubmitError(u, n, available)
      owner == IF u = NoUser THEN "u1" ELSE u
  IN /\ jobs[j].status = "none"
     /\ runs[r].pc \in {"idle", "done"}
     /\ invoked < MaxInvokes
     /\ submitted' = SubmitResult(error, n, available)
     /\ IF Admitted(error)
        THEN /\ jobs' = [jobs EXCEPT ![j] = NewJob(owner, n)]
             /\ runs' = [runs EXCEPT ![r] =
                           [IdleRun EXCEPT !.kind = "sequential",
                                           !.pc = "start", !.jobId = j]]
             /\ invoked' = invoked + 1
        ELSE UNCHANGED <<jobs, runs, invoked>>
     /\ UNCHANGED <<profiles, credit_transactions, stale, oracle, verifyVars,
                    credits0, debits, stopped, queried, calls, stopCall>>

\* ---- the status query --------------------------------------------------------
\* the BulkFinderJob object built from a row
JobView(job) ==
  [status |-> job.status, totalRequests |-> Len(job.requests_data),
   processedRequests |-> job.processed_requests,
   successfulFinds |-> job.successful_finds, failedFinds |-> job.failed_finds,
   requestsData |-> job.requests_data, errorMessage |-> job.error_message,
   completedAt |-> job.completed_at]

NoView == JobView(NoJob)

AnyOwner(job, u) == TRUE
\* .eq('user_id', user.id)
OwnedBy(job, u) == job.user_id = u

\* ---- stopBulkFinderJob and its caller ------------------------------------------
NoStopCall ==
  [caller |-> NoUser, jobId |-> "j1", success |-> FALSE, tick |-> FALSE]

StoppedRowRewound(job) ==
  [job EXCEPT !.status = "failed", !.error_message = ManualStop,
              !.completed_at = TRUE, !.current_index = 0]
\* .update({ status: 'failed', error_message: 'Job manually stopped by user',
\*           completed_at: ... })
StoppedRow(job) ==
  [job EXCEPT !.status = "failed", !.error_message = ManualStop,
              !.completed_at = TRUE]

\* .eq('id', jobId).eq('user_id', user.id): the rows the update applies to
StopMatches(u, jobId) ==
  {j \in JobIds : /\ jobs[j].status # "none" /\ j = jobId
                  /\ OwnedBy(jobs[j], u)}

\* stopBulkFinderJob(jobId) called by u: without a session it returns
\* 'Unauthorized'; otherwise one update filtered by id and user_id, which is
\* no error when it matches no row
StopBulkFinderJobBy(u, jobId) ==
  /\ stopCall' = [caller |-> u, jobId |-> jobId, success |-> u # NoUser,
                  tick |-> ~stopCall.tick]
  /\ IF u = NoUser
     THEN UNCHANGED <<jobs, stopped>>
     ELSE /\ jobs' = [j \in JobIds |->
                        IF j \in StopMatches(u, jobId)
                        THEN StoppedRow(jobs[j]) ELSE jobs[j]]
          /\ stopped' = [j \in JobIds |->
                           stopped[j] \/ j \in StopMatches(u, jobId)]
  /\ UNCHANGED <<profiles, credit_transactions, stale, runs, oracle,
                 submitted, queried, verifyVars, credits0, debits, invoked,
                 calls>>

\* .select('*').eq('id', jobId).eq('user_id', user.id): the matching rows
MatchingRows(jobId, u) ==
  {j \in JobIds : /\ jobs[j].status # "none" /\ j = jobId
                  /\ OwnedBy(jobs[j], u)}

\* what getBulkFinderJobStatus(jobId) returns to caller u; .single() is an
\* error unless exactly one row matches
StatusAnswer(u, jobId) ==
  IF u = NoUser
  THEN [success |-> FALSE, error |-> "Unauthorized", job |-> NoView]
  ELSE IF Cardinality(MatchingRows(jobId, u)) # 1
  THEN [success |-> FALSE, error |-> "Job not found", job |-> NoView]
  ELSE [success |-> TRUE, error |-> "",
        job |-> JobView(jobs[CHOOSE j \in MatchingRows(jobId, u) : TRUE])]

\* getBulkFinderJobStatus(jobId) called by u: a select and nothing else
GetBulkFinderJobStatus(u, jobId) ==
  /\ queried' = [caller |-> u, jobId |-> jobId,
                 answer |-> StatusAnswer(u, jobId)]
  /\ UNCHANGED <<dbVars, runs, oracle, submitted, verifyVars, credits0,
                 debits, stopped, invoked, calls, stopCall>>

\* ---- stalled runs and their recovery ---------------------------------------
\* the process running r dies (a serverless timeout, a restart): its locals and
\* its heartbeat timer are gone, the rows stay as they are
Crash(r) ==
  /\ runs[r].pc \notin {"idle", "done"}
  /\ runs' = [runs EXCEPT ![r] = IdleRun]
  /\ UNCHANGED <<dbVars, oracle, submitted, queried, verifyVars, credits0,
                 debits,
                 stopped, invoked, calls, stopCall>>

\* the heartbeat of the batched executor: setInterval(..., 30000) refreshes
\* updated_at until the finally block clears it
Heartbeat(r) ==
  /\ runs[r].kind = "batched"
  /\ runs[r].pc \notin {"idle", "done"}
  /\ stale[runs[r].jobId]
  /\ stale' = [stale EXCEPT ![runs[r].jobId] = FALSE]
  /\ UNCHANGED <<jobs, profiles, credit_transactions, runs, oracle,
                 submitted, queried,
                 verifyVars, credits0, debits, stopped, invoked, calls, stopCall>>

HeartbeatAlive(j) ==
  \E r \in RunIds : /\ runs[r].jobId = j /\ runs[r].kind = "batched"
                    /\ runs[r].pc \notin {"idle", "start", "done"}

\* updated_at falls behind the recovery threshold; a heartbeat every 30 s
\* keeps the row of a live batched run from ever getting that old
TimePasses(j) ==
  /\ jobs[j].status # "none"
  /\ ~stale[j]
  /\ ~HeartbeatAlive(j)
  /\ stale' = [stale EXCEPT ![j] = TRUE]
  /\ UNCHANGED <<jobs, profiles, credit_transactions, runs, oracle,
                 submitted, queried,
                 verifyVars, credits0, debits, stopped, invoked, calls, stopCall>>

StuckOrFailed(j) == jobs[j].status \in {"processing", "failed"} /\ stale[j]

NeverStuck(j) == FALSE

\* .eq('status', 'processing').lt('updated_at', <threshold ago>)
Stuck(j) == jobs[j].status = "processing" /\ stale[j]

\* recoverStuckJobs of lib/bulk-finder-processor.ts, for one stuck job: the
\* status goes back to pending and the batched executor is started again
RecoverStuckJobs(r, j) ==
  /\ Stuck(j)
  /\ runs[r].pc \in {"idle", "done"}
  /\ invoked < MaxInvokes
  /\ jobs' = [jobs EXCEPT ![j].status = "pending"]
  /\ stale' = [stale EXCEPT ![j] = FALSE]
  /\ runs' = [runs EXCEPT ![r] = [IdleRun EXCEPT !.kind = "batched",
                                                  !.pc = "start", !.jobId = j]]
  /\ invoked' = invoked + 1
  /\ UNCHANGED <<profiles, credit_transactions, oracle, submitted, queried,
                 verifyVars,
                 credits0, debits, stopped, calls, stopCall>>

\* const totalRequests = job.requests?.length || 0: the row has the column
\* requests_data and no column requests, so job.requests is undefined
TotalRequests(job) == 0

\* if (currentIndex > 0 && currentIndex < totalRequests)
HasPartialProgress(job) ==
  job.current_index > 0 /\ job.current_index < TotalRequests(job)

\* JobQueue.recoverStuckJobs, for one stuck job: "Resume from where it left
\* off" or "Reset job to pending status" with current_index: 0; the queue's
\* scan of pending jobs starts the executor afterwards
JobQueueRecoverStuckJobs(j) ==
  /\ Stuck(j)
  /\ jobs' = [jobs EXCEPT
       ![j].status = "pending",
       ![j].current_index = IF HasPartialProgress(jobs[j]) THEN @ ELSE 0]
  /\ stale' = [stale EXCEPT ![j] = FALSE]
  /\ UNCHANGED <<profiles, credit_transactions, runs, oracle, submitted,
                 queried,
                 verifyVars, credits0, debits, stopped, invoked, calls, stopCall>>

\* one step of a run of the sequential executor (jobs/route.ts)
SequentialStep(r) ==
  \/ LoadJob(r)
  \/ MarkProcessing(r)
  \/ SeqCheckStatus(r)
  \/ SeqMarkItem(r)
  \/ SeqReadProfile(r)
  \/ SeqDeduct(r)
  \/ SeqLookup(r)
  \/ SeqProgress(r)
  \/ LogTransaction(r)
  \/ MarkCompleted(r)

\* one step of the executor run r, of either flavour
ExecutorStep(r) ==
  \/ SequentialStep(r)
  \/ BatchLoop(r)
  \/ \E b \in 1..BATCH_SIZE : ItemReadProfile(r, b)
  \/ \E b \in 1..BATCH_SIZE : ItemDeduct(r, b)
  \/ \E b \in 1..BATCH_SIZE : ItemLookup(r, b)
  \/ BatchCheckpoint(r)

\* one step of a run of the batched executor (lib/bulk-finder-processor.ts)
BatchedStep(r) ==
  \/ LoadJob(r)
  \/ MarkProcessing(r)
  \/ BatchLoop(r)
  \/ \E b \in 1..BATCH_SIZE : ItemReadProfile(r, b)
  \/ \E b \in 1..BATCH_SIZE : ItemDeduct(r, b)
  \/ \E b \in 1..BATCH_SIZE : ItemLookup(r, b)
  \/ BatchCheckpoint(r)
  \/ LogTransaction(r)
  \/ MarkCompleted(r)

\* ---- storage errors in the batched executor --------------------------------
\* throw new Error(`Job not found: ...`)
JobNotFound == "Job not found"
\* throw new Error(`Failed to update job status to processing: ...`)
ProcessingWriteFailed == "Failed to update job status to processing"
\* throw new Error(`Failed to mark job as completed: ...`)
CompletionWriteFailed == "Failed to mark job as completed"

FatalMessages == {JobNotFound, ProcessingWriteFailed, CompletionWriteFailed}

\* control leaves the try block with the thrown error
Throw(run, message) == [run EXCEPT !.pc = "catch", !.error = message]

\* "Get job details" answers with jobError although the row exists
LoadJobFails(r) ==
  /\ runs[r].pc = "start"
  /\ jobs[runs[r].jobId].status # "none"
  /\ runs' = [runs EXCEPT ![r] = Throw(@, JobNotFound)]
  /\ UNCHANGED <<dbVars, oracle, submitted, queried, verifyVars, credits0,
                 debits, stopped, invoked, calls, stopCall>>

\* the update to 'processing' answers with updateError
MarkProcessingFails(r) ==
  /\ runs[r].pc = "loaded"
  /\ runs' = [runs EXCEPT ![r] = Throw(@, ProcessingWriteFailed)]
  /\ UNCHANGED <<dbVars, oracle, submitted, queried, verifyVars, credits0,
                 debits, stopped, invoked, calls, stopCall>>

\* the progress update answers with progressError: it is logged, the counters
\* of the run have been advanced already and the loop goes on
BatchCheckpointFails(r) ==
  LET run == runs[r]
      size == Len(run.slots)
      ok == Successes(run.slots)
  IN /\ run.kind = "batched" /\ run.pc = "batch"
     /\ \A b \in DOMAIN run.slots : run.slots[b].pc = "done"
     /\ runs' = [runs EXCEPT
          ![r].pc = "loop",
          ![r].processedCount = @ + size,
          ![r].totalProcessedRequests = @ + size,
          ![r].successCount = @ + ok,
          ![r].failedCount = @ + (size - ok),
          ![r].slots = <<>>,
          ![r].batchStart = @ + BATCH_SIZE]
     /\ UNCHANGED <<dbVars, oracle, submitted, queried, verifyVars, credits0,
                    debits, stopped, invoked, calls, stopCall>>

\* the update to 'completed' answers with completionError
MarkCompletedFails(r) ==
  /\ runs[r].pc = "complete"
  /\ runs' = [runs EXCEPT ![r] = Throw(@, CompletionWriteFailed)]
  /\ UNCHANGED <<dbVars, oracle, submitted, queried, verifyVars, credits0,
                 debits, stopped, invoked, calls, stopCall>>

FailedRowReset(job, message) ==
  [job EXCEPT !.status = "failed", !.error_message = message,
              !.current_index = 0]
\* .update({ status: 'failed', error_message: error.message, updated_at })
FailedRow(job, message) ==
  [job EXCEPT !.status = "failed", !.error_message = message]

\* the catch block ("Mark job as failed") and the finally block after it
CatchFatal(r) ==
  LET run == runs[r]
      j == run.jobId
  IN /\ run.pc = "catch"
     /\ jobs' = [jobs EXCEPT ![j] = FailedRow(@, run.error)]
     /\ stale' = [stale EXCEPT ![j] = FALSE]
     /\ runs' = [runs EXCEPT ![r] = [IdleRun EXCEPT !.kind = run.kind,
                                       !.pc = "done", !.jobId = j]]
     /\ UNCHANGED <<profiles, credit_transactions, oracle, submitted, queried,
                    verifyVars, credits0, debits, stopped, invoked, calls, stopCall>>

\* one step of a batched run whose storage calls may answer with an error
FaultyBatchedStep(r) ==
  \/ BatchedStep(r)
  \/ LoadJobFails(r)
  \/ MarkProcessingFails(r)
  \/ BatchCheckpointFails(r)
  \/ MarkCompletedFails(r)
  \/ CatchFatal(r)

\* ---- the JobQueue, one storage call at a time --------------------------------
\* a user action outside these sources sets the status the executors test for
\* and the job type lists: 'paused'
PauseJob(j) ==
  /\ jobs[j].status \in {"pending", "processing"}
  /\ jobs' = [jobs EXCEPT ![j].status = "paused"]
  /\ UNCHANGED <<profiles, credit_transactions, stale, runs, oracle,
                 submitted, queried, verifyVars, credits0, debits, stopped,
                 invoked, calls, stopCall>>

\* "Process max 5 jobs at once": the select of processPendingJobs returned j
\* among the pending jobs; j waits in the list for its turn
SelectPending(r, j) ==
  /\ jobs[j].status = "pending"
  /\ runs[r].pc \in {"idle", "done"}
  /\ invoked < MaxInvokes
  /\ runs' = [runs EXCEPT ![r] = [IdleRun EXCEPT !.kind = "queued",
                                                  !.pc = "selected",
                                                  !.jobId = j]]
  /\ UNCHANGED <<dbVars, oracle, submitted, queried, verifyVars, credits0,
                 debits, stopped, invoked, calls, stopCall>>

\* the for loop of processPendingJobs reaches j, one second after each job
\* before it: processJobInBackground(job.id), whatever the row says by now
StartSelected(r) ==
  /\ runs[r].pc = "selected"
  /\ runs' = [runs EXCEPT ![r].kind = "batched", ![r].pc = "start"]
  /\ invoked' = invoked + 1
  /\ UNCHANGED <<dbVars, oracle, submitted, queried, verifyVars, credits0,
                 debits, stopped, calls, stopCall>>

\* .in('status', ['pending', 'failed'])
Addable(status) == status \in {"pending", "failed"}

\* JobQueue.addJob(jobId): one conditional update; the scan it schedules is
\* SelectPending
AddJob(j) ==
  /\ Addable(jobs[j].status)
  /\ jobs' = [jobs EXCEPT ![j].status = "pending"]
  /\ stale' = [stale EXCEPT ![j] = FALSE]
  /\ UNCHANGED <<profiles, credit_transactions, runs, oracle, submitted,
                 queried, verifyVars, credits0, debits, stopped, invoked,
                 calls, stopCall>>

\* ---- deductCredits: lib/auth.ts ------------------------------------------------
CallIds == {"c1", "c2"}

\* 'email_find', 'email_verify', and "other" for every other string
Operations == {"email_find", "email_verify", "other"}

NoBalance == [credits_find |-> 0, credits_verify |-> 0]

BalanceOf(p) ==
  [credits_find |-> p.credits_find, credits_verify |-> p.credits_verify]

\* a call of deductCredits: path is "rpc" until the RPC has answered, "error"
\* in the fallback after an RPC error and "false" in the fallback after the RPC
\* returned false; before and after are the caller's balances around the
\* update the call made (history)
NoCall ==
  [pc |-> "idle", user |-> "u1", required |-> 0, operation |-> "other",
   path |-> "rpc", find |-> 0, verify |-> 0, result |-> FALSE,
   wrote |-> FALSE, before |-> NoBalance, after |-> NoBalance]

\* find credits first, the rest from verify credits, written as the values
\* computed from the balances read
FindFirst(p, find, verify, required) ==
  IF find >= required
  THEN [p EXCEPT !.credits_find = find - required]
  ELSE [p EXCEPT !.credits_find = 0,
                 !.credits_verify = verify - (required - find)]

PoolsSwapped(p, find, verify, required) ==
  FindFirst(p, find, verify, required)

\* verify credits first, the rest from find credits
VerifyFirst(p, find, verify, required) ==
  IF verify >= required
  THEN [p EXCEPT !.credits_verify = verify - required]
  ELSE [p EXCEPT !.credits_verify = 0,
                 !.credits_find = find - (required - verify)]

\* "Deduct credits based on operation type": the fallback after an RPC error
\* has an else branch ("Default: deduct from find credits first"), the
\* fallback after the RPC returned false has none and updates updated_at alone
FallbackUpdate(p, path, operation, find, verify, required) ==
  IF operation = "email_find" THEN FindFirst(p, find, verify, required)
  ELSE IF operation = "email_verify"
       THEN VerifyFirst(p, find, verify, required)
       ELSE IF path = "error" THEN FindFirst(p, find, verify, required)
            ELSE p

\* the UPDATE of the SQL function deduct_credits: the branch is chosen from
\* the values its SELECT read, the new values are computed from the row as it
\* is (SET credits_find = credits_find - required)
RpcUpdateRow(p, operation, find, verify, required) ==
  IF operation = "email_verify"
  THEN IF verify >= required
       THEN [p EXCEPT !.credits_verify = @ - required]
       ELSE [p EXCEPT !.credits_verify = 0,
                      !.credits_find = @ - (required - verify)]
  ELSE IF find >= required
       THEN [p EXCEPT !.credits_find = @ - required]
       ELSE [p EXCEPT !.credits_find = 0,
                      !.credits_verify = @ - (required - find)]

\* deductCredits(required, operation) called in a session of u (or without one)
DeductCredits(c, u, required, operation) ==
  /\ calls[c].pc = "idle"
  /\ calls' = [calls EXCEPT ![c] = [NoCall EXCEPT !.pc = "rpc", !.user = u,
                                      !.required = required,
                                      !.operation = operation]]
  /\ UNCHANGED <<dbVars, runs, oracle, submitted, queried, verifyVars,
                 credits0, debits, stopped, invoked,
                 stopCall>>

\* supabase.rpc('deduct_credits', ...) answers with an error
RpcError(c) ==
  /\ calls[c].pc = "rpc"
  /\ calls' = [calls EXCEPT ![c].pc = "fallback", ![c].path = "error"]
  /\ UNCHANGED <<dbVars, runs, oracle, submitted, queried, verifyVars,
                 credits0, debits, stopped, invoked,
                 stopCall>>

\* the RPC answers false for a reason of its own ("RPC function logic issue":
\* the deployed function may be the one that tests the old credits column)
RpcRefuses(c) ==
  /\ calls[c].pc = "rpc"
  /\ calls' = [calls EXCEPT ![c].pc = "fallback", ![c].path = "false"]
  /\ UNCHANGED <<dbVars, runs, oracle, submitted, queried, verifyVars,
                 credits0, debits, stopped, invoked,
                 stopCall>>

\* deduct_credits up to its checks: auth.uid(), the SELECT of the balances and
\* the plan expiry, "Check if user has enough credits"
RpcSelect(c) ==
  LET call == calls[c]
      u == call.user
  IN /\ call.pc = "rpc"
     /\ calls' = [calls EXCEPT ![c] =
          IF u = NoUser
          THEN [call EXCEPT !.pc = "fallback", !.path = "false"]
          ELSE IF IsPlanExpired(u)
          THEN [call EXCEPT !.pc = "expire"]
          ELSE IF Total(profiles[u]) < call.required
          THEN [call EXCEPT !.pc = "fallback", !.path = "false"]
          ELSE [call EXCEPT !.pc = "update",
                            !.find = profiles[u].credits_find,
                            !.verify = profiles[u].credits_verify]]
     /\ UNCHANGED <<dbVars, runs, oracle, submitted, queried, verifyVars,
                    credits0, debits, stopped, invoked,
                 stopCall>>

\* "Reset credits to 0 for expired plan", RETURN FALSE
RpcExpire(c) ==
  LET call == calls[c]
      u == call.user
  IN /\ call.pc = "expire"
     /\ profiles' = [profiles EXCEPT ![u].credits_find = 0,
                                     ![u].credits_verify = 0]
     /\ calls' = [calls EXCEPT ![c] =
          [call EXCEPT !.pc = "fallback", !.path = "false", !.wrote = TRUE,
                       !.before = BalanceOf(profiles[u]),
                       !.after = NoBalance]]
     /\ UNCHANGED <<jobs, credit_transactions, stale, runs, oracle, submitted,
                    queried, verifyVars, credits0, debits, stopped, invoked,
                 stopCall>>

\* the UPDATE of deduct_credits, its INSERT into credit_transactions and
\* RETURN TRUE
RpcUpdate(c) ==
  LET call == calls[c]
      u == call.user
      row == RpcUpdateRow(profiles[u], call.operation, call.find, call.verify,
                          call.required)
  IN /\ call.pc = "update"
     /\ profiles' = [profiles EXCEPT ![u] = row]
     /\ credit_transactions' =
          Append(credit_transactions,
                 [user_id |-> u, job_id |-> "none",
                  amount |-> 0 - call.required])
     /\ calls' = [calls EXCEPT ![c] =
          [call EXCEPT !.pc = "done", !.result = TRUE, !.wrote = TRUE,
                       !.before = BalanceOf(profiles[u]),
                       !.after = BalanceOf(row)]]
     /\ UNCHANGED <<jobs, stale, runs, oracle, submitted, queried, verifyVars,
                    credits0, debits, stopped, invoked,
                 stopCall>>

\* the fallback up to its check: getCurrentUser(), "Get current credits",
\* if (totalCredits < required) return false
FallbackRead(c) ==
  LET call == calls[c]
      u == call.user
  IN /\ call.pc = "fallback"
     /\ calls' = [calls EXCEPT ![c] =
          IF u = NoUser \/ Total(profiles[u]) < call.required
          THEN [call EXCEPT !.pc = "done", !.result = FALSE]
          ELSE [call EXCEPT !.pc = "write",
                            !.find = profiles[u].credits_find,
                            !.verify = profiles[u].credits_verify]]
     /\ UNCHANGED <<dbVars, runs, oracle, submitted, queried, verifyVars,
                    credits0, debits, stopped, invoked,
                 stopCall>>

\* the fallback's update of the profile, return true
FallbackWrite(c) ==
  LET call == calls[c]
      u == call.user
      row == FallbackUpdate(profiles[u], call.path, call.operation, call.find,
                            call.verify, call.required)
  IN /\ call.pc = "write"
     /\ profiles' = [profiles EXCEPT ![u] = row]
     /\ calls' = [calls EXCEPT ![c] =
          [call EXCEPT !.pc = "done", !.result = TRUE, !.wrote = TRUE,
                       !.before = BalanceOf(profiles[u]),
                       !.after = BalanceOf(row)]]
     /\ UNCHANGED <<jobs, credit_transactions, stale, runs, oracle, submitted,
                    queried, verifyVars, credits0, debits, stopped, invoked,
                 stopCall>>

\* one step of the call c of deductCredits
DeductStep(c) ==
  \/ \E u \in {"u1", NoUser}, required \in 1..MaxRequired,
        operation \in Operations : DeductCredits(c, u, required, operation)
  \/ RpcError(c)
  \/ RpcRefuses(c)
  \/ RpcSelect(c)
  \/ RpcExpire(c)
  \/ RpcUpdate(c)
  \/ FallbackRead(c)
  \/ FallbackWrite(c)

\* ---- the verify executors ---------------------------------------------------
\* processJob of app/api/bulk-verify/process/route.ts (variant "process") and
\* the processJob that shares a file with the health route (variant "health")
NoVerifyJob ==
  [status |-> "none", user_id |-> "u1", emails_data |-> <<>>,
   processed_emails |-> 0, successful_verifications |-> 0,
   failed_verifications |-> 0, current_index |-> 0, error_message |-> "",
   completed_at |-> FALSE]

\* the row submitBulkVerificationJob inserts for n emails
NewVerifyJob(u, n) ==
  [NoVerifyJob EXCEPT !.status = "pending", !.user_id = u,
                      !.emails_data = [i \in 1..n |-> "pending"]]

NoVerifyRun ==
  [variant |-> "none", pc |-> "idle", user_id |-> "u1", emails |-> <<>>,
   updatedEmailsData |-> <<>>, processedCount |-> 0, successfulCount |-> 0,
   failedCount |-> 0, i |-> 0, find |-> 0, verify |-> 0, result |-> "",
   totalProcessedEmails |-> 0]

\* stopAt: processedCount of the run when the user stopped the job (-1: never);
\* midItem: an item was in flight then; attemptsAfterStop: verifyEmail calls
\* since the stop; attempts: all verifyEmail calls; debits: credits debited;
\* transactions: rows added to transactions
NoVerifyHistory ==
  [stopAt |-> -1, midItem |-> FALSE, attemptsAfterStop |-> 0, attempts |-> 0,
   debits |-> 0, transactions |-> 0]

NoCreditsMessage ==
  "You don't have enough credits to continue verification. Please purchase additional credits or upgrade your plan to proceed."

\* processedCount % 10 === 0 || processedCount === emails.length
ProgressEvery == 10
ProgressDue(processedCount, len) ==
  processedCount % ProgressEvery = 0 \/ processedCount = len

\* "Deduct from verify credits first, then find credits if needed"
DeductVerifyFirst(p, variant, find, verify) ==
  IF verify >= 1 THEN [p EXCEPT !.credits_verify = verify - 1]
  ELSE IF variant = "process"
       THEN [p EXCEPT !.credits_verify = 0, !.credits_find = find - 1]
       ELSE [p EXCEPT !.credits_find = find - 1]

\* for (let i = processedCount; i < emails.length; i++): where the run goes
\* when it reaches the loop test with index i
VerifyLoopPc(variant, i, len) ==
  IF i < len THEN "item"
  ELSE IF variant = "health" THEN "txn" ELSE "complete"

\* POST /api/bulk-verify/process?jobId=: processJobInBackground(jobId)
VerifyInvoke(variant) ==
  /\ vjob.status # "none"
  /\ vrun.pc \in {"idle", "done"}
  /\ invoked < MaxInvokes
  /\ vrun' = [NoVerifyRun EXCEPT !.variant = variant, !.pc = "start"]
  /\ invoked' = invoked + 1
  /\ UNCHANGED <<dbVars, runs, oracle, submitted, queried, vsubmitted, vjob,
                 vhist, credits0,
                 debits, stopped, calls, stopCall>>

\* "Get the job details" and the locals taken from the row
VerifyLoadJob ==
  /\ vrun.pc = "start"
  /\ vrun' = [vrun EXCEPT !.pc = "loaded",
                          !.user_id = vjob.user_id,
                          !.emails = vjob.emails_data,
                          !.updatedEmailsData = vjob.emails_data,
                          !.processedCount = vjob.processed_emails,
                          !.successfulCount = vjob.successful_verifications,
                          !.failedCount = vjob.failed_verifications,
                          !.i = vjob.processed_emails]
  /\ UNCHANGED <<dbVars, runs, oracle, submitted, queried, vsubmitted, vjob,
                 vhist, credits0,
                 debits, stopped, invoked, calls, stopCall>>

\* "Update job status to processing"
VerifyMarkProcessing ==
  /\ vrun.pc = "loaded"
  /\ vjob' = [vjob EXCEPT !.status = "processing"]
  /\ vrun' = [vrun EXCEPT
       !.pc = VerifyLoopPc(vrun.variant, vrun.i, Len(vrun.emails))]
  /\ UNCHANGED <<dbVars, runs, oracle, submitted, queried, vsubmitted, vhist,
                 credits0, debits,
                 stopped, invoked, calls, stopCall>>

\* the profile read of item i: first thing of the item in variant "process",
\* after the verification in variant "health". Without credits "process"
\* fails the job and returns; "health" marks the email 'error' and continues
VerifyReadProfile ==
  LET p == profiles[vrun.user_id]
      i == vrun.i
      len == Len(vrun.emails)
  IN /\ \/ vrun.variant = "process" /\ vrun.pc = "item"
        \/ vrun.variant = "health" /\ vrun.pc = "credit"
     /\ IF HasCredits(p.credits_find, p.credits_verify)
        THEN /\ vrun' = [vrun EXCEPT
                  !.pc = IF vrun.variant = "process" THEN "verify" ELSE "deduct",
                  !.find = p.credits_find, !.verify = p.credits_verify]
             /\ vjob' = vjob
        ELSE IF vrun.variant = "process"
        THEN /\ vjob' = [vjob EXCEPT
                  !.status = "failed",
                  !.error_message = NoCreditsMessage,
                  !.processed_emails = vrun.processedCount,
                  !.successful_verifications = vrun.successfulCount,
                  !.failed_verifications = vrun.failedCount,
                  !.emails_data = vrun.updatedEmailsData]
             /\ vrun' = [NoVerifyRun EXCEPT !.variant = vrun.variant,
                                            !.pc = "done"]
        ELSE /\ vrun' = [vrun EXCEPT
                  !.pc = VerifyLoopPc(vrun.variant, i + 1, len),
                  !.updatedEmailsData[i + 1] = "error",
                  !.failedCount = @ + 1,
                  !.processedCount = @ + 1,
                  !.i = i + 1]
             /\ vjob' = vjob
     /\ UNCHANGED <<dbVars, runs, oracle, submitted, queried, vsubmitted,
                    vhist, credits0, debits,
                    stopped, invoked, calls, stopCall>>

\* verifyEmail answers and the email's entry takes result.status
VerifyEmail ==
  /\ \/ vrun.variant = "process" /\ vrun.pc = "verify"
     \/ vrun.variant = "health" /\ vrun.pc = "item"
  /\ \E o \in Outcomes :
       vrun' = [vrun EXCEPT
         !.pc = IF vrun.variant = "process" THEN "deduct" ELSE "credit",
         !.updatedEmailsData[vrun.i + 1] = o,
         !.result = o]
  /\ vhist' = [vhist EXCEPT
       !.attempts = @ + 1,
       !.attemptsAfterStop = IF vhist.stopAt >= 0 THEN @ + 1 ELSE @]
  /\ UNCHANGED <<dbVars, runs, oracle, submitted, queried, vsubmitted, vjob,
                 credits0, debits,
                 stopped, invoked, calls, stopCall>>

\* the balance write of item i, the row added to transactions ("process"),
\* the counters and processedCount++
VerifyDeduct ==
  LET u == vrun.user_id
      ok == vrun.result = "valid"
  IN /\ vrun.pc = "deduct"
     /\ profiles' = [profiles EXCEPT
          ![u] = DeductVerifyFirst(@, vrun.variant, vrun.find, vrun.verify)]
     /\ vhist' = [vhist EXCEPT
          !.debits = @ + 1,
          !.transactions = IF vrun.variant = "process" THEN @ + 1 ELSE @]
     /\ vrun' = [vrun EXCEPT
          !.pc = "progress",
          !.totalProcessedEmails = IF vrun.variant = "health" THEN @ + 1 ELSE @,
          !.successfulCount = IF ok THEN @ + 1 ELSE @,
          !.failedCount = IF ok THEN @ ELSE @ + 1,
          !.processedCount = @ + 1]
     /\ UNCHANGED <<jobs, credit_transactions, stale, runs, oracle,
                    submitted, queried, vsubmitted,
                    vjob, credits0, debits, stopped, invoked, calls, stopCall>>

\* "Update progress every 10 emails or at the end", then i++
VerifyProgress ==
  LET len == Len(vrun.emails)
  IN /\ vrun.pc = "progress"
     /\ vjob' = IF ProgressDue(vrun.processedCount, len)
                THEN [vjob EXCEPT
                        !.processed_emails = vrun.processedCount,
                        !.successful_verifications = vrun.successfulCount,
                        !.failed_verifications = vrun.failedCount,
                        !.emails_data = vrun.updatedEmailsData]
                ELSE vjob
     /\ vrun' = [vrun EXCEPT
          !.pc = VerifyLoopPc(vrun.variant, vrun.i + 1, len),
          !.i = vrun.i + 1]
     /\ UNCHANGED <<dbVars, runs, oracle, submitted, queried, vsubmitted,
                    vhist, credits0, debits,
                    stopped, invoked, calls, stopCall>>

\* "Log single bulk transaction for all processed emails" (variant "health")
VerifyLogTransaction ==
  /\ vrun.pc = "txn"
  /\ credit_transactions' =
       IF vrun.totalProcessedEmails > 0
       THEN Append(credit_transactions,
                   [user_id |-> vrun.user_id, job_id |-> "verify",
                    amount |-> 0 - vrun.totalProcessedEmails])
       ELSE credit_transactions
  /\ vrun' = [vrun EXCEPT !.pc = "complete"]
  /\ UNCHANGED <<jobs, profiles, stale, runs, oracle, submitted, queried,
                 vsubmitted, vjob, vhist,
                 credits0, debits, stopped, invoked, calls, stopCall>>

\* "Mark job as completed", with the counters and the emails
VerifyMarkCompleted ==
  /\ vrun.pc = "complete"
  /\ vjob' = [vjob EXCEPT
       !.status = "completed",
       !.processed_emails = vrun.processedCount,
       !.successful_verifications = vrun.successfulCount,
       !.failed_verifications = vrun.failedCount,
       !.emails_data = vrun.updatedEmailsData,
       !.completed_at = TRUE]
  /\ vrun' = [NoVerifyRun EXCEPT !.variant = vrun.variant, !.pc = "done"]
  /\ UNCHANGED <<dbVars, runs, oracle, submitted, queried, vsubmitted, vhist,
                 credits0, debits,
                 stopped, invoked, calls, stopCall>>

\* stopBulkVerificationJob: .eq('status', 'processing')
StopBulkVerificationJob ==
  /\ vjob.status = "processing"
  /\ vjob' = [vjob EXCEPT !.status = "failed", !.error_message = ManualStop]
  /\ vhist' = [vhist EXCEPT
       !.stopAt = IF vrun.pc \in {"idle", "done"} THEN vjob.processed_emails
                  ELSE vrun.processedCount,
       !.midItem = vrun.pc \in {"verify", "credit", "deduct", "progress"},
       !.attemptsAfterStop = 0]
  /\ UNCHANGED <<dbVars, runs, oracle, submitted, queried, vsubmitted, vrun,
                 credits0, debits,
                 stopped, invoked, calls, stopCall>>

VerifyExecutorStep ==
  \/ VerifyLoadJob
  \/ VerifyMarkProcessing
  \/ VerifyReadProfile
  \/ VerifyEmail
  \/ VerifyDeduct
  \/ VerifyProgress
  \/ VerifyLogTransaction
  \/ VerifyMarkCompleted

\* "Check if user has Verify Credits specifically"
AvailableVerifyCredits(profile) == profile.credits_verify

\* submitBulkVerificationJob(emails) of caller u with n emails: the same
\* checks against credits_verify, the insert of the pending job and the POST
\* that starts a verify executor for it
SubmitBulkVerificationJob(u, n) ==
  LET available == IF u = NoUser THEN 0
                   ELSE AvailableVerifyCredits(profiles[u])
      error == SubmitError(u, n, available)
      owner == IF u = NoUser THEN "u1" ELSE u
  IN /\ vjob.status = "none"
     /\ vrun.pc \in {"idle", "done"}
     /\ invoked < MaxInvokes
     /\ vsubmitted' = SubmitResult(error, n, available)
     /\ IF Admitted(error)
        THEN /\ vjob' = NewVerifyJob(owner, n)
             /\ \E variant \in {"process", "health"} :
                  vrun' = [NoVerifyRun EXCEPT !.variant = variant,
                                              !.pc = "start"]
             /\ invoked' = invoked + 1
        ELSE UNCHANGED <<vjob, vrun, invoked>>
     /\ UNCHANGED <<dbVars, runs, oracle, submitted, queried, vhist,
                    credits0, debits,
                    stopped, calls, stopCall>>

\* ---- initial states ------------------------------------------------------
NoProfile == [credits_find |-> 0, credits_verify |-> 0, plan_expired |-> FALSE]
Balances == [credits_find : 0..MaxCredits, credits_verify : 0..MaxCredits,
             plan_expired : {FALSE}]
\* answers for the n items of a job (the rest is never asked)
Oracles(n) == {o \in [1..MaxItems -> Outcomes] :
                 \A i \in 1..MaxItems : i > n => o[i] = "error"}

NotSubmitted == [error |-> "none", required |-> 0, available |-> 0]
NotQueried ==
  [caller |-> NoUser, jobId |-> "j1",
   answer |-> [success |-> FALSE, error |-> "none", job |-> NoView]]

InitIdle ==
  /\ credit_transactions = <<>>
  /\ stale = [j \in JobIds |-> FALSE]
  /\ runs = [r \in RunIds |-> IdleRun]
  /\ submitted = NotSubmitted
  /\ vjob = NoVerifyJob
  /\ vrun = NoVerifyRun
  /\ vhist = NoVerifyHistory
  /\ vsubmitted = NotSubmitted
  /\ queried = NotQueried
  /\ calls = [c \in CallIds |-> NoCall]
  /\ stopCall = NoStopCall
  /\ debits = [u \in Users |-> 0]
  /\ stopped = [j \in JobIds |-> FALSE]
  /\ invoked = 0

\* one admitted job of u1, not yet picked up; the balance is whatever other
\* operations on the account have left of it
Init ==
  /\ InitIdle
  /\ \E n \in 1..MaxItems :
       /\ jobs = [j \in JobIds |-> IF j = "j1" THEN NewJob("u1", n) ELSE NoJob]
       /\ oracle \in Oracles(n)
  /\ \E b \in Balances :
       /\ profiles = [u \in Users |-> IF u = "u1" THEN b ELSE NoProfile]
       /\ credits0 = profiles

Next ==
  \/ PostTrigger("r1", "j1")
  \/ ProcessPendingJobs("r1", "j1")
  \/ ExecutorStep("r1")
  \/ StopBulkFinderJob("j1")

Spec == Init /\ [][Next]_vars

\* the job of Init with runs that die and the two recoveries of stuck jobs
NextRecover ==
  \/ PostTrigger("r1", "j1")
  \/ ProcessPendingJobs("r1", "j1")
  \/ ExecutorStep("r1")
  \/ Crash("r1")
  \/ Heartbeat("r1")
  \/ TimePasses("j1")
  \/ RecoverStuckJobs("r1", "j1")
  \/ JobQueueRecoverStuckJobs("j1")

SpecRecover == Init /\ [][NextRecover]_vars

\* the same job twice, on two accounts with the same balances: j1 is run by the
\* batched executor, j2 by the sequential one, and the lookup service gives
\* both the same answers
InitEquiv ==
  /\ InitIdle
  /\ \E n \in 1..MaxItems :
       /\ jobs = [j \in JobIds |->
                    IF j = "j1" THEN NewJob("u1", n) ELSE NewJob("u2", n)]
       /\ oracle \in Oracles(n)
  /\ \E b \in Balances :
       /\ profiles = [u \in Users |-> b]
       /\ credits0 = profiles

NextEquiv ==
  \/ ProcessPendingJobs("r1", "j1")
  \/ PostTrigger("r2", "j2")
  \/ ExecutorStep("r1")
  \/ ExecutorStep("r2")

SpecEquiv == InitEquiv /\ [][NextEquiv]_vars

\* no job yet: u1 submits find jobs until one is admitted, and the executor
\* the submission starts runs it
SubmitBalances ==
  [credits_find : 0..MaxItems, credits_verify : 0..MaxVerifyCredits,
   plan_expired : BOOLEAN]

InitSubmit ==
  /\ InitIdle
  /\ jobs = [j \in JobIds |-> NoJob]
  /\ oracle \in Oracles(MaxItems)
  /\ \E b \in SubmitBalances :
       profiles = [u \in Users |-> IF u = "u1" THEN b ELSE NoProfile]
  /\ credits0 = profiles

NextSubmit ==
  \/ \E u \in {"u1", NoUser}, n \in 1..MaxItems :
       SubmitBulkFinderJob("r1", "j1", u, n)
  \/ SequentialStep("r1")

SpecSubmit == InitSubmit /\ [][NextSubmit]_vars

\* no job yet: callers with and without a session submit find and verify jobs;
\* an admitted job is run by the executor its submission starts
InitAdmission ==
  /\ InitIdle
  /\ jobs = [j \in JobIds |-> NoJob]
  /\ oracle \in Oracles(0)
  /\ \E b \in SubmitBalances :
       profiles = [u \in Users |-> IF u = "u1" THEN b ELSE NoProfile]
  /\ credits0 = profiles

NextAdmission ==
  \/ \E u \in {"u1", NoUser}, n \in 1..MaxItems :
       SubmitBulkFinderJob("r1", "j1", u, n)
  \/ \E u \in {"u1", NoUser}, n \in 1..MaxItems :
       SubmitBulkVerificationJob(u, n)
  \/ SequentialStep("r1")
  \/ VerifyExecutorStep

SpecAdmission == InitAdmission /\ [][NextAdmission]_vars

\* an admitted verify job of VerifyItems emails of u1, not yet picked up
VerifyBalances ==
  [credits_find : 0..1, credits_verify : 0..VerifyItems, plan_expired : {FALSE}]

InitVerify ==
  /\ credit_transactions = <<>>
  /\ stale = [j \in JobIds |-> FALSE]
  /\ runs = [r \in RunIds |-> IdleRun]
  /\ submitted = NotSubmitted
  /\ jobs = [j \in JobIds |-> NoJob]
  /\ oracle \in Oracles(0)
  /\ vjob = NewVerifyJob("u1", VerifyItems)
  /\ vrun = NoVerifyRun
  /\ vhist = NoVerifyHistory
  /\ vsubmitted = NotSubmitted
  /\ queried = NotQueried
  /\ calls = [c \in CallIds |-> NoCall]
  /\ stopCall = NoStopCall
  /\ \E b \in VerifyBalances :
       profiles = [u \in Users |-> IF u = "u1" THEN b ELSE NoProfile]
  /\ credits0 = profiles
  /\ debits = [u \in Users |-> 0]
  /\ stopped = [j \in JobIds |-> FALSE]
  /\ invoked = 0

NextVerify ==
  \/ \E variant \in {"process", "health"} : VerifyInvoke(variant)
  \/ VerifyExecutorStep
  \/ StopBulkVerificationJob

SpecVerify == InitVerify /\ [][NextVerify]_vars

\* no job yet: u1 submits a find job, which starts the sequential executor on
\* it, while the JobQueue scans for pending jobs and the POST endpoint is
\* called for the job
InitTriggers ==
  /\ InitIdle
  /\ jobs = [j \in JobIds |-> NoJob]
  /\ oracle \in Oracles(MaxItems)
  /\ \E b \in Balances :
       profiles = [u \in Users |-> IF u = "u1" THEN b ELSE NoProfile]
  /\ credits0 = profiles

NextTriggers ==
  \/ \E n \in 1..MaxItems : SubmitBulkFinderJob("r1", "j1", "u1", n)
  \/ ProcessPendingJobs("r2", "j1")
  \/ PostTrigger("r2", "j1")
  \/ ExecutorStep("r1")
  \/ ExecutorStep("r2")

SpecTriggers == InitTriggers /\ [][NextTriggers]_vars

\* a job of u1 and a job of u2; j1 is being run while users with and without
\* a session ask for the status of either job
NextQuery ==
  \/ PostTrigger("r1", "j1")
  \/ SequentialStep("r1")
  \/ \E u \in Users \cup {NoUser}, j \in JobIds : GetBulkFinderJobStatus(u, j)

SpecQuery == InitEquiv /\ [][NextQuery]_vars

\* ---- claims ----------------------------------------------------------------
Active(r) == runs[r].pc \notin {"idle", "done"}
InFlight(j) == \E r \in RunIds : runs[r].jobId = j /\ Active(r)
Items(j) == Len(jobs[j].requests_data)
Owner(j) == jobs[j].user_id
Spent(u) == Total(credits0[u]) - Total(profiles[u])

\* C1: of N concurrent callers of the check-and-debit of 1 credit against a
\* combined balance of B, at most B succeed (no overdraw).
NoOverdraw == \A u \in Users : debits[u] <= Total(credits0[u])

\* C3: once stopBulkFinderJob has set a job's status to failed, no later step
\* changes that status.
StoppedStaysStopped ==
  [][\A j \in JobIds :
       (jobs[j].status = "failed" /\ jobs[j].error_message = ManualStop)
          => jobs'[j].status = "failed"]_vars

\* C4: a run invoked on a job whose persisted current_index is k processes
\* only items at index >= k, and the items below k stay as they were.
ResumeProcessesOnlyFromCursor ==
  [][\A r \in RunIds :
       /\ runs'[r].pc \notin {"idle", "start", "done"}
            => \A i \in runs'[r].touched : i >= runs'[r].loadedIndex
       /\ runs[r].pc \notin {"idle", "start", "done"}
            => \A pos \in 1..runs[r].loadedIndex :
                 jobs'[runs[r].jobId].requests_data[pos]
                   = jobs[runs[r].jobId].requests_data[pos]]_vars

ResumedRunAtWork ==
  \E r \in RunIds : /\ runs[r].pc \notin {"idle", "start", "done"}
                    /\ runs[r].loadedIndex > 0
                    /\ runs[r].touched # {}

\* C5: when a job is stopped after m items were processed, the owner's
\* combined balance has decreased by exactly m.
StopChargesProcessedItems ==
  \A j \in JobIds :
    (stopped[j] /\ ~InFlight(j) /\ Total(credits0[Owner(j)]) >= Items(j))
      => Spent(Owner(j)) = jobs[j].processed_requests

\* C8: when every lookup of a job returns a transport error and the account
\* covers every item, the run still ends with the job completed, every item
\* failed, processed = failed = len(items) and no success.
AllErrors(j) == \A i \in 1..Items(j) : oracle[i] = "error"

ErrorsOnlyRunFinished(j) ==
  /\ jobs[j].status # "none"
  /\ \E r \in RunIds : runs[r].jobId = j /\ runs[r].pc = "done"
  /\ ~InFlight(j)
  /\ ~stopped[j]
  /\ AllErrors(j)
  /\ Total(credits0[Owner(j)]) >= Items(j)

ErrorsAreNotFatal ==
  \A j \in JobIds :
    ErrorsOnlyRunFinished(j)
      => /\ jobs[j].status = "completed"
         /\ jobs[j].processed_requests = Items(j)
         /\ jobs[j].successful_finds = 0
         /\ jobs[j].failed_finds = Items(j)
         /\ \A i \in 1..Items(j) : jobs[j].requests_data[i].status = "failed"

ErrorsOnlyJobDone == \E j \in JobIds : ErrorsOnlyRunFinished(j) /\ Items(j) >= 2

\* C2: in every persisted job record processedCount = successCount +
\* failedCount and processedCount <= len(items).
CountersConsistent ==
  \A j \in JobIds :
    /\ jobs[j].processed_requests
         = jobs[j].successful_finds + jobs[j].failed_finds
    /\ jobs[j].processed_requests <= Items(j)

\* C6: requeueing a stuck job (processing and stale, back to pending) leaves
\* current_index, the items and the counters untouched.
RecoveryKeepsCheckpoint ==
  [][\A j \in JobIds :
       (Stuck(j) /\ jobs'[j].status = "pending")
         => /\ jobs'[j].current_index = jobs[j].current_index
            /\ jobs'[j].requests_data = jobs[j].requests_data
            /\ jobs'[j].processed_requests = jobs[j].processed_requests
            /\ jobs'[j].successful_finds = jobs[j].successful_finds
            /\ jobs'[j].failed_finds = jobs[j].failed_finds]_vars

\* C7: the same job, balances and lookup answers give the same final job
\* record and the same final balances under the sequential executor (batch
\* size 1) and under the batched executor.
BothFinished ==
  /\ runs["r1"].pc = "done" /\ runs["r1"].jobId = "j1"
  /\ runs["r2"].pc = "done" /\ runs["r2"].jobId = "j2"

BatchSizeDoesNotMatter ==
  BothFinished
    => /\ [jobs["j1"] EXCEPT !.user_id = "u2"] = jobs["j2"]
       /\ profiles["u1"] = profiles["u2"]

\* C9 as stated: submitting 3 find items for an account holding 2 find credits
\* and 5 verify credits is admitted.
CombinedPoolsAdmit ==
  (/\ credits0["u1"].credits_find = 2 /\ credits0["u1"].credits_verify = 5
   /\ ~credits0["u1"].plan_expired /\ submitted.required = 3)
    => submitted.error = "ok"

\* C9 as amended: admission of a find job looks at credits_find alone: a
\* submission of more items than credits_find is rejected with the shortfall
\* and creates no job, whatever credits_verify holds; an admitted job has
\* credits_find >= len(items), and once the run the submission started has
\* completed it, len(items) credits were debited, all of them from credits_find.
FindAdmissionUsesFindCredits ==
  /\ submitted.error = "InsufficientCredits"
       => /\ submitted.available = credits0["u1"].credits_find
          /\ submitted.available < submitted.required
          /\ jobs["j1"].status = "none"
          /\ profiles = credits0
  /\ jobs["j1"].status # "none"
       => /\ credits0["u1"].credits_find >= Items("j1")
          /\ submitted.error = "ok"
  /\ (jobs["j1"].status = "completed" /\ ~InFlight("j1"))
       => /\ profiles["u1"].credits_find
               = credits0["u1"].credits_find - Items("j1")
          /\ profiles["u1"].credits_verify = credits0["u1"].credits_verify

RejectedDespiteVerifyCredits ==
  /\ credits0["u1"].credits_find = 2 /\ credits0["u1"].credits_verify = 5
  /\ submitted = [error |-> "InsufficientCredits", required |-> 3,
                  available |-> 2]
  /\ jobs["j1"].status = "none"

\* C10: a verify job of 5 items stopped after 2 items have completed gets no
\* further item processed, ends failed (not completed) with its cursor at 2
\* and exactly 2 credits debited. The cursor is processed_emails, the column
\* the executors resume from (no executor writes the row's current_index).
StoppedAfterTwo ==
  /\ Len(vjob.emails_data) = 5
  /\ vhist.stopAt = 2 /\ ~vhist.midItem
  /\ Total(credits0["u1"]) >= 5

VerifyStopHalts ==
  StoppedAfterTwo
    => /\ vhist.attemptsAfterStop = 0
       /\ vhist.debits = 2
       /\ vjob.status \in {"failed", "paused"}
       /\ vrun.pc = "done" => vjob.processed_emails = 2

\* C11: a submission that fails a check (no session, plan expired, no credit
\* in the pool it reads, fewer credits than items) returns an error, naming
\* required and available for the shortfall, and creates no job, starts no
\* executor and debits nothing.
FindRejected == submitted' # submitted /\ submitted'.error # "ok"
VerifyRejected == vsubmitted' # vsubmitted /\ vsubmitted'.error # "ok"

RejectionHasNoSideEffects ==
  [][/\ (FindRejected \/ VerifyRejected)
         => /\ jobs' = jobs /\ vjob' = vjob
            /\ runs' = runs /\ vrun' = vrun
            /\ profiles' = profiles /\ debits' = debits
            /\ credit_transactions' = credit_transactions
     /\ (FindRejected /\ submitted'.error = "InsufficientCredits")
         => /\ submitted'.available = profiles["u1"].credits_find
            /\ 0 < submitted'.available
            /\ submitted'.available < submitted'.required
     /\ (VerifyRejected /\ vsubmitted'.error = "InsufficientCredits")
         => /\ vsubmitted'.available = profiles["u1"].credits_verify
            /\ 0 < vsubmitted'.available
            /\ vsubmitted'.available < vsubmitted'.required]_vars

\* a find submission was rejected and the verify job of the account is being
\* executed and debited
RejectedWhileOtherJobRuns ==
  /\ submitted.error \in {"Unauthorized", "PlanExpired", "NoCredits",
                          "InsufficientCredits"}
  /\ jobs["j1"].status = "none"
  /\ vjob.status = "processing"
  /\ vhist.debits > 0

\* C12: every admitted job gets an executor run started, and the run started
\* by submit and a run started by the JobQueue's scan of pending jobs never
\* both exist for the same job.
StartedOn(r, j) == runs[r].pc # "idle" /\ runs[r].jobId = j

OneInitialExecution ==
  /\ jobs["j1"].status # "none" => \E r \in RunIds : StartedOn(r, "j1")
  /\ ~(/\ StartedOn("r1", "j1") /\ runs["r1"].kind = "sequential"
        /\ StartedOn("r2", "j1") /\ runs["r2"].kind = "batched")

\* C20: no two executor runs iterate the items of the same job at the same
\* time.
Iterating(r) ==
  Active(r) /\ runs[r].pc \notin {"start", "loaded", "txn", "complete"}

OneRunPerJob ==
  \A r1, r2 \in RunIds :
    (r1 # r2 /\ runs[r1].jobId = runs[r2].jobId)
      => ~(Iterating(r1) /\ Iterating(r2))

\* C13: when a job completes, exactly one credit_transactions row has been
\* appended for it, and its amount is minus the number of items processed,
\* which is minus the number of credits debited from the owner for the job.
\* Stated for a job run once, never stopped, whose owner could pay every item.
RowsOf(j) == SelectSeq(credit_transactions, LAMBDA t : t.job_id = j)

CompletedInOneRun(j) ==
  /\ jobs[j].status = "completed"
  /\ ~InFlight(j)
  /\ ~stopped[j]
  /\ invoked = 1
  /\ Total(credits0[Owner(j)]) >= Items(j)

OneLedgerEntryPerJob ==
  \A j \in JobIds :
    CompletedInOneRun(j)
      => /\ Len(RowsOf(j)) = 1
         /\ RowsOf(j)[1].amount = 0 - jobs[j].processed_requests
         /\ RowsOf(j)[1].amount = 0 - Spent(Owner(j))

\* C14: every item whose lookup is attempted is charged exactly 1 credit,
\* whatever the lookup returns: between two items and after the run, the
\* debits made and the decrease of the balance equal the lookups attempted.
BetweenVerifyItems == vrun.pc \in {"item", "txn", "complete", "done"}

ChargedPerAttempt ==
  BetweenVerifyItems
    => /\ vhist.debits = vhist.attempts
       /\ Spent("u1") = vhist.attempts

\* C15: an item whose turn comes with a combined balance below 1 is failed
\* without a lookup and without a debit, and the job goes on: a run that was
\* not stopped visits every item, looks up exactly the items the balance
\* could pay for, and ends with the job completed.
VerifyRunEnded == vrun.pc = "done" /\ invoked = 1 /\ vhist.stopAt = -1

ShortfallFailsItemOnly ==
  VerifyRunEnded
    => /\ vjob.status = "completed"
       /\ vjob.processed_emails = Len(vjob.emails_data)
       /\ vhist.attempts = Min(Total(credits0["u1"]), Len(vjob.emails_data))
       /\ vhist.debits = vhist.attempts

\* C16: getBulkFinderJobStatus(jobId) called by u returns the job, with its
\* item array, only if u owns it; any other caller gets 'Job not found' or
\* 'Unauthorized' and no field of the job; the call changes no row.
Asked == queried' # queried

FindAdmitted == submitted' # submitted /\ submitted'.error = "ok"

SubmitCreatesPendingJob ==
  [][FindAdmitted
       => /\ \E j \in JobIds :
               /\ jobs[j].status = "none"
               /\ jobs'[j].status = "pending"
               /\ Len(jobs'[j].requests_data) = submitted'.required
               /\ \A i \in 1..submitted'.required :
                    jobs'[j].requests_data[i] =
                      [input |-> i, status |-> "pending", error |-> "",
                       email |-> FALSE]
               /\ jobs'[j].current_index = 0
               /\ jobs'[j].processed_requests = 0
               /\ jobs'[j].successful_finds = 0
               /\ jobs'[j].failed_finds = 0
               /\ \A k \in JobIds \ {j} : jobs'[k] = jobs[k]
          /\ profiles' = profiles
          /\ debits' = debits
          /\ credit_transactions' = credit_transactions]_vars

\* a job of three inputs has just been admitted
ThreeInputsAdmitted ==
  /\ submitted.error = "ok" /\ submitted.required = 3
  /\ jobs["j1"].status = "pending"
  /\ Len(jobs["j1"].requests_data) = 3

\* C18: the executor re-reads the status before each batch or item, and once
\* a stop has been written it begins no further batch or item: only what was
\* in flight when the stop was written is finished. Stated for the one run
\* that was started before the stop.
BeginsWork(r) ==
  runs[r].pc = "loop" /\ runs'[r].pc \in {"batch", "mark"}

StopEndsRunAtNextCheck ==
  [][\A r \in RunIds :
       (stopped[runs[r].jobId] /\ invoked = 1) => ~BeginsWork(r)]_vars

\* C19: after k one-credit debits have succeeded against an account that
\* started with combined balance B, its combined balance is exactly B - k.
NoDebitLost == \A u \in Users : Total(profiles[u]) = Total(credits0[u]) - debits[u]

\* C21: the checkpoint advances only after a whole batch, so the items that
\* were attempted and are not covered by the persisted current_index all lie
\* in [current_index, current_index + batch size): a resume re-attempts at
\* most one batch. An item counts as attempted here when the row records the
\* outcome of its lookup.
LookupRecorded(item) ==
  \/ item.status = "completed"
  \/ item.status = "failed" /\ item.error # "Insufficient credits"

ReattemptsWithinOneBatch ==
  \A j \in JobIds :
    \A i \in 1..Items(j) :
      (LookupRecorded(jobs[j].requests_data[i])
         /\ i - 1 >= jobs[j].current_index)
        => i - 1 < jobs[j].current_index + BATCH_SIZE

\* the job of Init run by the batched executor against a storage whose calls
\* may fail
NextFaults ==
  \/ ProcessPendingJobs("r1", "j1")
  \/ FaultyBatchedStep("r1")

SpecFaults == Init /\ [][NextFaults]_vars

\* C22: the batched executor never starts a batch unless the checkpoint of
\* the batch before it has been persisted: while a run is inside the batch
\* that starts at batchStart, the stored current_index is at least batchStart.
CheckpointBeforeProgress ==
  \A r \in RunIds :
    (runs[r].kind = "batched" /\ runs[r].pc = "batch")
      => jobs[runs[r].jobId].current_index >= runs[r].batchStart

\* C23: when a run ends through its catch block, the job becomes failed with
\* the message of the exception, and current_index, the items and the counters
\* stay what the last persisted checkpoint made them.
EndsInCatch(r) == runs[r].pc = "catch" /\ runs'[r].pc = "done"

RequeuedPartway(j) ==
  /\ Stuck(j)
  /\ jobs'[j].status = "pending"
  /\ 0 < jobs[j].current_index
  /\ jobs[j].current_index < Len(jobs[j].requests_data)

PartialProgressIsResumed ==
  [][\A j \in JobIds :
       RequeuedPartway(j) => jobs'[j].current_index = jobs[j].current_index]_vars

\* the job of Init under the JobQueue and the two recoveries, with runs that
\* die and a user who pauses the job
NextDaemon ==
  \/ SelectPending("r1", "j1")
  \/ StartSelected("r1")
  \/ AddJob("j1")
  \/ BatchedStep("r1")
  \/ PauseJob("j1")
  \/ Crash("r1")
  \/ Heartbeat("r1")
  \/ TimePasses("j1")
  \/ RecoverStuckJobs("r1", "j1")
  \/ JobQueueRecoverStuckJobs("j1")

SpecDaemon == Init /\ [][NextDaemon]_vars

\* C25: the daemon never touches a paused job: no step of recoverStuckJobs
\* (either version), processPendingJobs or addJob sets a paused job back to
\* pending (the one write they make), and none starts an executor for it.
Requeued(j) == jobs'[j].status = "pending"

ExecutorStarted(j) ==
  \E r \in RunIds : /\ runs[r].pc # "start"
                    /\ runs'[r].pc = "start"
                    /\ runs'[r].jobId = j

PausedJobsLeftAlone ==
  [][\A j \in JobIds :
       jobs[j].status = "paused"
         => ~Requeued(j) /\ ~ExecutorStarted(j)]_vars

\* C27: the heartbeat tells a live run from a dead one: a run that is alive
\* keeps updated_at fresh whatever its checkpoints do, so the recovery never
\* requeues a job while an executor is at work on it.
Alive(j) ==
  \E r \in RunIds : /\ runs[r].jobId = j
                    /\ runs[r].kind \in {"batched", "sequential"}
                    /\ runs[r].pc \notin {"idle", "done"}

LiveJobsAreNotRequeued ==
  [][\A j \in JobIds :
       (Stuck(j) /\ jobs'[j].status = "pending") => ~Alive(j)]_vars

\* ---- runs under fair scheduling ---------------------------------------------
\* a process dies only finitely often: each death leaves room for one more
\* invocation
BoundedCrash(r) ==
  /\ invoked < MaxInvokes
  /\ runs[r].kind \in {"batched", "sequential"}
  /\ Crash(r)

\* the await of findEmail returns
LookupStep(r) ==
  \/ \E b \in 1..BATCH_SIZE : ItemLookup(r, b)
  \/ SeqLookup(r)

\* every other step of an executor: storage calls that answer, and the catch
\* block
StorageStep(r) ==
  \/ LoadJob(r)
  \/ MarkProcessing(r)
  \/ BatchLoop(r)
  \/ \E b \in 1..BATCH_SIZE : ItemReadProfile(r, b)
  \/ \E b \in 1..BATCH_SIZE : ItemDeduct(r, b)
  \/ BatchCheckpoint(r)
  \/ SeqCheckStatus(r)
  \/ SeqMarkItem(r)
  \/ SeqReadProfile(r)
  \/ SeqDeduct(r)
  \/ SeqProgress(r)
  \/ LogTransaction(r)
  \/ MarkCompleted(r)
  \/ CatchFatal(r)

\* one admitted job of u1 holding find credits only, not yet picked up
InitLive ==
  /\ InitIdle
  /\ \E n \in 1..MaxItems :
       /\ jobs = [j \in JobIds |-> IF j = "j1" THEN NewJob("u1", n) ELSE NoJob]
       /\ oracle \in Oracles(n)
  /\ \E f \in 0..MaxCredits :
       /\ profiles = [u \in Users |->
                        IF u = "u1" THEN [NoProfile EXCEPT !.credits_find = f]
                        ELSE NoProfile]
       /\ credits0 = profiles

\* the direct call of processJobInBackground that submitBulkFinderJob makes
\* after its insert
StartAfterSubmit(r, j) ==
  /\ jobs[j].status = "pending"
  /\ Invoke(r, j, "sequential")

\* that job under both executors, the JobQueue and the recoveries, with
\* storage errors and processes that die
NextLive ==
  \/ StartAfterSubmit("r1", "j1")
  \/ SelectPending("r1", "j1")
  \/ StartSelected("r1")
  \/ SequentialStep("r1")
  \/ FaultyBatchedStep("r1")
  \/ BoundedCrash("r1")
  \/ Heartbeat("r1")
  \/ TimePasses("j1")
  \/ RecoverStuckJobs("r1", "j1")
  \/ JobQueueRecoverStuckJobs("j1")

\* the timers of the JobQueue keep firing (setInterval), time passes, and a
\* live process runs on to its next await; nothing makes fetch return
FairButForLookups ==
  /\ WF_vars(StorageStep("r1"))
  /\ WF_vars(SelectPending("r1", "j1"))
  /\ WF_vars(StartSelected("r1"))
  /\ WF_vars(JobQueueRecoverStuckJobs("j1"))
  /\ WF_vars(TimePasses("j1"))

\* lookups answer
SpecLive ==
  /\ InitLive /\ [][NextLive]_vars
  /\ FairButForLookups /\ WF_vars(LookupStep("r1"))

\* lookups may hang
SpecHang == InitLive /\ [][NextLive]_vars /\ FairButForLookups

Terminal(status) == status \in {"completed", "failed", "paused"}

\* C26 as stated: a job failed by a fatal error of its executor, with items
\* left, is eventually resumed by the daemon like a stalled one.
FailedByFatalError(j) ==
  /\ jobs[j].status = "failed"
  /\ jobs[j].error_message \in FatalMessages
  /\ jobs[j].current_index < Len(jobs[j].requests_data)
  /\ invoked < MaxInvokes

QueueStarted(j) ==
  \E r \in RunIds : /\ runs[r].pc # "start"
                    /\ runs'[r].pc = "start"
                    /\ runs'[r].kind = "batched"
                    /\ runs'[r].jobId = j

EveryJobTerminates ==
  \A j \in JobIds :
    (jobs[j].status \in {"pending", "processing"})
      ~> Terminal(jobs[j].status)

\* a job completed by the run that followed a requeue to index 0
CompletedAfterRecovery ==
  /\ jobs["j1"].status = "completed"
  /\ invoked = MaxInvokes
  /\ jobs["j1"].processed_requests > Len(jobs["j1"].requests_data)

\* C28: a hung lookup cannot stall a job for ever: whether or not the lookup
\* service answers, a job that is being processed reaches a terminal status.
HungLookupDoesNotStall ==
  \A j \in JobIds :
    (jobs[j].status = "processing") ~> Terminal(jobs[j].status)

\* C30: in every stored job, each item at an index below current_index has a
\* final status of its own (completed or failed), never pending or processing.
ItemSettled(item) == item.status \in {"completed", "failed"}

CursorInvariant ==
  \A j \in JobIds :
    \A i \in 1..Len(jobs[j].requests_data) :
      i <= jobs[j].current_index => ItemSettled(jobs[j].requests_data[i])

\* a job in progress whose cursor has passed a found and a failed item
CursorPastSettledItems ==
  /\ jobs["j1"].status = "processing"
  /\ jobs["j1"].current_index = 2
  /\ Len(jobs["j1"].requests_data) = 3
  /\ jobs["j1"].requests_data[1].status = "completed"
  /\ jobs["j1"].requests_data[2].status = "failed"
  /\ jobs["j1"].requests_data[3].status = "processing"

\* C31: error_message is set only on failed jobs: every stored job whose
\* status is pending, processing, completed or paused has an empty
\* error_message, also after an earlier failure or stop.
ErrorMessageOnlyWhenFailed ==
  \A j \in JobIds :
    jobs[j].status \in {"pending", "processing", "completed", "paused"}
      => jobs[j].error_message = ""

\* ---- deductCredits on one account ----------------------------------------------
\* no job: the account of u1 with some balance, its plan expired or not
InitDeduct ==
  /\ InitIdle
  /\ jobs = [j \in JobIds |-> NoJob]
  /\ oracle \in Oracles(0)
  /\ \E b \in [credits_find : 0..MaxCredits, credits_verify : 0..MaxCredits,
               plan_expired : BOOLEAN] :
       profiles = [u \in Users |-> IF u = "u1" THEN b ELSE NoProfile]
  /\ credits0 = profiles

\* one call at a time
NextPools == DeductStep("c1")

SpecPools == InitDeduct /\ [][NextPools]_vars

\* two calls side by side
NextDeduct == \E c \in CallIds : DeductStep(c)

SpecDeduct == InitDeduct /\ [][NextDeduct]_vars

\* C32: a debit of amount a for a find (verify) operation takes min(a, balance
\* of the find (verify) pool) from that pool and the remainder from the other
\* pool, so the other pool is touched only when the preferred one cannot cover
\* a, and the two pools together lose exactly a. Stated for a debit that runs
\* alone: deductCredits on all its paths, and the one-credit debits of the find
\* and verify executors.
AfterPreferred(before, operation, a) ==
  IF operation = "email_verify"
  THEN LET own == Min(a, before.credits_verify)
       IN [credits_find |-> before.credits_find - (a - own),
           credits_verify |-> before.credits_verify - own]
  ELSE LET own == Min(a, before.credits_find)
       IN [credits_find |-> before.credits_find - own,
           credits_verify |-> before.credits_verify - (a - own)]

Debited(c) ==
  /\ calls[c].pc = "done"
  /\ calls[c].result
  /\ calls[c].operation \in {"email_find", "email_verify"}

ExecutorDebitsPreferPool ==
  \A find \in 0..MaxCredits, verify \in 0..MaxCredits :
    LET b == [credits_find |-> find, credits_verify |-> verify]
    IN HasCredits(find, verify)
         => /\ DeductOne(b, find, verify) = AfterPreferred(b, "email_find", 1)
            /\ \A variant \in {"process", "health"} :
                 DeductVerifyFirst(b, variant, find, verify)
                   = AfterPreferred(b, "email_verify", 1)

PoolPreference ==
  /\ ExecutorDebitsPreferPool
  /\ \A c \in CallIds :
       Debited(c)
         => /\ calls[c].after
                 = AfterPreferred(calls[c].before, calls[c].operation,
                                  calls[c].required)
            /\ Total(calls[c].before) - Total(calls[c].after)
                 = calls[c].required

\* a verify debit of 2 that found 1 verify credit and took the rest from the
\* find pool
VerifyDebitSpilled ==
  /\ Debited("c1")
  /\ calls["c1"].operation = "email_verify"
  /\ calls["c1"].required = 2
  /\ calls["c1"].before.credits_verify = 1
  /\ calls["c1"].after = [credits_find |-> calls["c1"].before.credits_find - 1,
                          credits_verify |-> 0]

\* C33: balances are never negative, whatever the interleaving of the debits.
BalancesNeverNegative ==
  \A u \in Users :
    profiles[u].credits_find >= 0 /\ profiles[u].credits_verify >= 0

\* C38: deductCredits is all-or-nothing: a call that returned true found
\* find + verify >= required in the row it updated and took exactly required
\* from the two pools together, and a call that returned false changed no
\* balance, for every operation and on both fallback paths.
Returned(c) == calls[c].pc = "done"

DeductIsAllOrNothing ==
  \A c \in CallIds :
    Returned(c) =>
      IF calls[c].result
      THEN /\ calls[c].wrote
           /\ Total(calls[c].before) >= calls[c].required
           /\ Total(calls[c].before) - Total(calls[c].after)
                = calls[c].required
      ELSE ~calls[c].wrote \/ calls[c].after = calls[c].before

\* a job of u1 that the sequential executor runs and a job of u2 that waits,
\* while either user, or a caller without a session, asks to stop either job
\* (NextStop); both accounts hold find credits only (InitStop)
NextStop ==
  \/ PostTrigger("r1", "j1")
  \/ SequentialStep("r1")
  \/ \E u \in Users \cup {NoUser}, j \in JobIds : StopBulkFinderJobBy(u, j)

InitStop ==
  /\ InitIdle
  /\ \E n \in 1..MaxItems :
       /\ jobs = [j \in JobIds |->
                    IF j = "j1" THEN NewJob("u1", n) ELSE NewJob("u2", n)]
       /\ oracle \in Oracles(n)
  /\ \E f \in 0..MaxCredits :
       /\ profiles = [u \in Users |-> [NoProfile EXCEPT !.credits_find = f]]
       /\ credits0 = profiles

SpecStop == InitStop /\ [][NextStop]_vars

\* C39: a stopBulkFinderJob call changes nothing when the caller does not own
\* the job; when the caller owns it, the call changes only status,
\* error_message and completed_at of that job: the items, the cursor, the
\* counters of the job, every other job, the balances and the ledger are as
\* they were.
StopCalled == stopCall'.tick # stopCall.tick

StopChangesOnlyOwnStopFields ==
  [][StopCalled =>
       /\ profiles' = profiles
       /\ credit_transactions' = credit_transactions
       /\ \A j \in JobIds :
            IF j = stopCall'.jobId /\ jobs[j].user_id = stopCall'.caller
            THEN [jobs'[j] EXCEPT !.status = jobs[j].status,
                                  !.error_message = jobs[j].error_message,
                                  !.completed_at = jobs[j].completed_at]
                   = jobs[j]
            ELSE jobs'[j] = jobs[j]]_vars

\* u1 has stopped its own job partway and has then asked to stop the job of
\* u2, which still waits
StrangerStopAfterOwnStop ==
  /\ stopCall.caller = "u1" /\ stopCall.jobId = "j2" /\ stopCall.success
  /\ jobs["j2"].status = "pending"
  /\ jobs["j1"].error_message = ManualStop
  /\ jobs["j1"].current_index > 0

\* C34: a job whose status is completed is fully processed: every item is
\* completed or failed, current_index is the number of items and
\* processed_requests is the number of items.
FullyProcessed(job) ==
  /\ \A i \in 1..Len(job.requests_data) : ItemSettled(job.requests_data[i])
  /\ job.current_index = Len(job.requests_data)
  /\ job.processed_requests = Len(job.requests_data)

CompletedMeansFullyProcessed ==
  \A j \in JobIds : jobs[j].status = "completed" => FullyProcessed(jobs[j])

\* C35: completed is absorbing: once a job's status is completed, no step
\* changes its row again (status, items, counters, current_index), and no
\* further credit is debited from its owner.
CompletedIsAbsorbing ==
  [][\A j \in JobIds :
       jobs[j].status = "completed" =>
         /\ jobs'[j] = jobs[j]
         /\ profiles'[Owner(j)] = profiles[Owner(j)]]_vars

\* C36: the cursor only moves forward: the stored current_index of a job
\* never decreases, and 0 <= current_index <= number of items, also when a
\* job is re-queued or run by overlapping executions.
CursorOnlyMovesForward ==
  [][\A j \in JobIds :
       /\ jobs'[j].current_index >= jobs[j].current_index
       /\ jobs'[j].current_index \in 0..Len(jobs'[j].requests_data)]_vars

\* C37: a job never costs more than its size: over all its runs, crashes,
\* recoveries and resumes, the credits taken from the owner's balance on
\* behalf of the job never exceed its number of items. (The owner has this
\* one job, so every credit spent is spent on it.)
JobNeverCostsMoreThanItsSize ==
  \A j \in JobIds :
    jobs[j].status # "none" => Spent(Owner(j)) <= Items(j)

====
